---- MODULE Spec2Model ----
(***************************************************************************)
(* TL2 software transactional memory of src/tl2: the region (words with a  *)
(* versioned lock and a payload, the global version clock), the            *)
(* transaction context and the begin / read / write / end protocol, with   *)
(* every access to shared memory as one atomic step of the calling thread. *)
(***************************************************************************)
EXTENDS Integers, Sequences, FiniteSets, TLC

\* ---------------------------------------------------------------- bounds
NumThreads == 2   \* concurrent caller threads
MaxTx == 2        \* transactions begun in one run
MaxOps == 2       \* read / write calls per transaction
NumWords == 2     \* words of the first segment that the callers use
MaxVal == 1       \* distinct payload values one transaction may write
MaxProbe == 2     \* word offsets handed to Region::word on each side of 2^16

\* ------------------------------------------------------- program constants
align == 8
kFIRST == <<1, 0>>          \* 1UL << 32, as <<high 32 bits, low 32 bits>>
kADDR_MASK == 65535         \* 0x000000000000FFFF

Threads == 1..NumThreads
\* A run is made of MaxTx transactions of up to MaxOps calls, or of one more
\* transaction with one call less in each.
Limits == {[tx |-> MaxTx, ops |-> MaxOps], [tx |-> MaxTx + 1, ops |-> MaxOps - 1]}
\* The values the transaction with history id `id` writes: no two transactions
\* write the same value, and none writes the initial 0.
ValuesOf(id) == {id * (MaxVal + 1) + k : k \in 1..MaxVal}

\* An address is <<addr >> 32, addr & 0xFFFFFFFF>>.
AddrAt(base, k) == <<base[1], base[2] + k * align>>
Addrs == {AddrAt(kFIRST, i) : i \in 0..(NumWords - 1)}
AddrLT(a, b) == a[1] < b[1] \/ (a[1] = b[1] /\ a[2] < b[2])

\* Region::word: mem[addr >> 32].words[(addr & kADDR_MASK) / align]
word(addr) == <<addr[1], (addr[2] % (kADDR_MASK + 1)) \div align>>
Words == {word(a) : a \in Addrs}

VARIABLES
  mem,      \* Region::mem: word -> [lock: [locked, version], word: payload]
  gvc,      \* Region::gvc
  pc,       \* where each thread stands in the call it is making
  tx,       \* the Transaction each thread owns
  cur,      \* the addresses the running loop of tm_end still has to visit
  op,       \* the tm_read call in progress or last finished, with its dst
  origin,   \* history: word -> wv of the transaction whose Commit stored the payload
  g,        \* history of each thread's running transaction
  log,      \* history: the finished transactions
  txCount,  \* history: transactions begun so far
  lim,      \* the limits of this run, one of Limits
  probe     \* two addresses handed to Region::word and the words it gave

vars == <<mem, gvc, pc, tx, cur, op, origin, g, log, txCount, lim, probe>>

\* ------------------------------------------------------ VersionedLock
\* versioned_lock.hpp is not among the sources; the four operations follow
\* section 4.1 of the specification.
Sample(l) == [locked |-> l.locked, version |-> l.version]
TryLockOk(l, rv) == ~l.locked
Unlock(l) == [locked |-> FALSE, version |-> l.version]
UnlockWith(l, v) == [locked |-> FALSE, version |-> v]

\* ------------------------------------------------------ Transaction
EmptyWS == [a \in {} |-> 0]
Transaction(ro, rv) ==
  [ro |-> ro, rv |-> rv, wv |-> 0, read_set |-> {}, write_set |-> EmptyWS]
NoTx == Transaction(FALSE, 0)
\* op: source and size (in words) of the tm_read call, the offset reached, the
\* words copied to target, the addresses whose lock was sampled, and how the
\* call stands ("run", "ok" for true, "abort" for false).
NoOp == [addr |-> kFIRST, n |-> 0, i |-> 0, dst |-> <<>>, sampled |-> {}, st |-> "none"]
\* g: the number of the transaction in the order of tm_begin, the transactions
\* already committed at its begin, its reads from shared memory (address,
\* value, wv of the Commit that stored it), what it staged, its calls so far,
\* and at its call of tm_end the transactions begun so far and ConflictAtEnd.
NoG == [id |-> 0, done |-> {}, reads |-> {}, written |-> EmptyWS, nops |-> 0,
        conflict |-> FALSE, endAt |-> 0]

Min(S) == CHOOSE a \in S : \A b \in S : a = b \/ AddrLT(a, b)

\* ------------------------------------------------------ Init
Created ==
  /\ mem = [w \in Words |-> [lock |-> [locked |-> FALSE, version |-> 0], word |-> 0]]
  /\ gvc = 0
  /\ pc = [t \in Threads |-> "idle"]
  /\ tx = [t \in Threads |-> NoTx]
  /\ cur = [t \in Threads |-> {}]
  /\ op = [t \in Threads |-> NoOp]
  /\ origin = [w \in Words |-> 0]
  /\ g = [t \in Threads |-> NoG]
  /\ log = {}
  /\ txCount = 0
  /\ lim \in Limits

\* No address has been handed to Region::word on its own.
NoProbe == [a |-> kFIRST, b |-> kFIRST, wa |-> <<>>, wb |-> <<>>, st |-> "none"]
Init == Created /\ probe = NoProbe

\* The transaction T of thread t is deleted and the call returns ok.
Finish(t, T, ok, how) ==
  /\ log' = log \cup {[id |-> g[t].id, ro |-> T.ro, rv |-> T.rv, wv |-> T.wv,
                       ws |-> T.write_set, reads |-> g[t].reads, done |-> g[t].done,
                       conflict |-> g[t].conflict, endAt |-> g[t].endAt,
                       ok |-> ok, how |-> how]}
  /\ tx' = [tx EXCEPT ![t] = NoTx]
  /\ pc' = [pc EXCEPT ![t] = "idle"]

CommittedIds == {e.id : e \in {x \in log : x.ok}}

\* ------------------------------------------------------ tm_begin
tm_begin(t, ro) ==
  /\ pc[t] = "idle"
  /\ txCount < lim.tx
  /\ tx' = [tx EXCEPT ![t] = Transaction(ro, gvc)]
  /\ pc' = [pc EXCEPT ![t] = "active"]
  /\ txCount' = txCount + 1
  /\ g' = [g EXCEPT ![t] = [NoG EXCEPT !.id = txCount + 1, !.done = CommittedIds]]
  /\ op' = [op EXCEPT ![t] = NoOp]
  /\ UNCHANGED <<mem, gvc, cur, origin, log, lim, probe>>

\* ------------------------------------------------------ tm_write
Staged(ws, target, n, src) ==
  [a \in (DOMAIN ws) \cup {AddrAt(target, k) : k \in 0..(n - 1)} |->
     IF \E k \in 0..(n - 1) : a = AddrAt(target, k)
       THEN src[(CHOOSE k \in 0..(n - 1) : a = AddrAt(target, k)) + 1]
       ELSE ws[a]]

\* Variant of tm_write that also stores every word through to the region.
tm_write_through(t, target, n, src) ==
  /\ pc[t] = "active"
  /\ ~tx[t].ro
  /\ g[t].nops < lim.ops
  /\ tx' = [tx EXCEPT ![t].write_set = Staged(@, target, n, src)]
  /\ g' = [g EXCEPT ![t].nops = @ + 1,
                    ![t].written = Staged(@, target, n, src)]
  /\ op' = [op EXCEPT ![t] = NoOp]
  /\ mem' = [w \in Words |->
               IF \E k \in 0..(n - 1) : w = word(AddrAt(target, k))
                 THEN [mem[w] EXCEPT !.word =
                         src[(CHOOSE k \in 0..(n - 1) : w = word(AddrAt(target, k))) + 1]]
                 ELSE mem[w]]
  /\ UNCHANGED <<gvc, pc, cur, origin, log, txCount, lim, probe>>

\* tm_write stages the words of source in write_set; callers write only in
\* transactions begun with ro = false.
tm_write(t, target, n, src) ==
  /\ pc[t] = "active"
  /\ ~tx[t].ro
  /\ g[t].nops < lim.ops
  /\ tx' = [tx EXCEPT ![t].write_set = Staged(@, target, n, src)]
  /\ g' = [g EXCEPT ![t].nops = @ + 1,
                    ![t].written = Staged(@, target, n, src)]
  /\ op' = [op EXCEPT ![t] = NoOp]
  /\ UNCHANGED <<mem, gvc, pc, cur, origin, log, txCount, lim, probe>>

\* ------------------------------------------------------ tm_read
\* The call: nothing is touched before the first iteration of the loop.
tm_read(t, source, n) ==
  /\ pc[t] = "active"
  /\ g[t].nops < lim.ops
  /\ pc' = [pc EXCEPT ![t] = "read"]
  /\ op' = [op EXCEPT ![t] = [addr |-> source, n |-> n, i |-> 0, dst |-> <<>>,
                              sampled |-> {}, st |-> "run"]]
  /\ g' = [g EXCEPT ![t].nops = @ + 1]
  /\ UNCHANGED <<mem, gvc, tx, cur, origin, log, txCount, lim, probe>>

\* transaction->write_set.find(addr) != transaction->write_set.end(), in the
\* branch of a transaction that is not read-only.
\* (InWriteSetMissed: the variant whose lookup never finds the address.)
InWriteSetMissed(T, addr) == FALSE
InWriteSet(T, addr) == ~T.ro /\ addr \in DOMAIN T.write_set

\* One word copied: the loop goes on, or the call returns true.
Copied(t, v) ==
  /\ op' = [op EXCEPT ![t].dst = Append(@, v), ![t].i = @ + 1,
                      ![t].st = IF op[t].i + 1 = op[t].n THEN "ok" ELSE "run"]
  /\ pc' = [pc EXCEPT ![t] = IF op[t].i + 1 = op[t].n THEN "active" ELSE "read"]

\* (ReadAbortsAtRv: the variant that also refuses a version equal to rv.)
ReadAbortsAtRv(ts, T) == ts.locked \/ T.rv <= ts.version
\* if (ts.locked or transaction->rv < ts.version), in both branches of tm_read.
ReadAborts(ts, T) == ts.locked \/ T.rv < ts.version

\* Loop head of tm_read: the word is served from the write set, or its lock
\* is sampled; locked or newer than rv aborts the transaction.
ReadWord(t) ==
  /\ pc[t] = "read"
  /\ LET addr == AddrAt(op[t].addr, op[t].i)
         rs == IF tx[t].ro THEN tx[t].read_set ELSE tx[t].read_set \cup {addr}
         ts == Sample(mem[word(addr)].lock)
     IN IF InWriteSet(tx[t], addr)
          THEN /\ Copied(t, tx[t].write_set[addr])
               /\ tx' = [tx EXCEPT ![t].read_set = rs]
               /\ UNCHANGED <<log, g>>
          ELSE IF ReadAborts(ts, tx[t])
            THEN /\ Finish(t, tx[t], FALSE, "read")
                 /\ op' = [op EXCEPT ![t].st = "abort", ![t].sampled = @ \cup {addr}]
                 /\ UNCHANGED g
            ELSE /\ tx' = [tx EXCEPT ![t].read_set = rs]
                 /\ pc' = [pc EXCEPT ![t] = "read_copy"]
                 /\ op' = [op EXCEPT ![t].sampled = @ \cup {addr}]
                 /\ UNCHANGED <<log, g>>
  /\ UNCHANGED <<mem, gvc, cur, origin, txCount, lim, probe>>

\* memcpy(target_addr, &word.data, align) after the sample let the word through.
ReadCopy(t) ==
  /\ pc[t] = "read_copy"
  /\ LET addr == AddrAt(op[t].addr, op[t].i)
         w == word(addr)
     IN /\ Copied(t, mem[w].word)
        /\ g' = [g EXCEPT ![t].reads = @ \cup
                   {[addr |-> addr, val |-> mem[w].word, from |-> origin[w]]}]
  /\ UNCHANGED <<mem, gvc, tx, cur, origin, log, txCount, lim, probe>>

\* ------------------------------------------------------ tm_end
\* A committed transaction that wrote an address this one read from shared
\* memory, and whose end returned after this one began.
ConflictAtEnd(t) ==
  \E e \in log : /\ e.ok /\ ~e.ro /\ e.id \notin g[t].done
                 /\ \E r \in g[t].reads : /\ r.addr \in DOMAIN e.ws
                                          /\ r.addr \notin DOMAIN tx[t].write_set
                                          /\ r.from < e.wv

\* if (transaction->ro) at the head of tm_end.
\* (ReadOnlyEndSkipped: the variant without the test.)
ReadOnlyEndSkipped(T) == FALSE
ReadOnlyEnd(T) == T.ro

\* The call: a read-only transaction is deleted at once; otherwise
\* LockWriteSet starts on the write set, in the order of the map.
tm_end(t) ==
  /\ pc[t] = "active"
  /\ IF ReadOnlyEnd(tx[t])
       THEN /\ Finish(t, tx[t], TRUE, "ro")
            /\ UNCHANGED <<cur, g>>
       ELSE /\ pc' = [pc EXCEPT ![t] = IF DOMAIN tx[t].write_set = {} THEN "fetch" ELSE "lock"]
            /\ cur' = [cur EXCEPT ![t] = DOMAIN tx[t].write_set]
            /\ g' = [g EXCEPT ![t].conflict = ConflictAtEnd(t), ![t].endAt = txCount]
            /\ UNCHANGED <<tx, log>>
  /\ op' = [op EXCEPT ![t] = NoOp]
  /\ UNCHANGED <<mem, gvc, origin, txCount, lim, probe>>

\* Region::LockWriteSet, one iteration: `auto w = word(entry.first)` copies
\* the word, so TryLock acts on the copy and the word of the region keeps
\* its lock as it was.  On failure the locks recorded in `locked` (references
\* to the dead copies) are unlocked, which reaches no word of the region;
\* as no word of the region is ever locked, no copy is, and this branch is
\* not taken in any run (NoWordLocked below).
LockWriteSet(t) ==
  /\ pc[t] = "lock"
  /\ LET addr == Min(cur[t])
         w == mem[word(addr)]
     IN IF ~TryLockOk(w.lock, tx[t].rv)
          THEN /\ Finish(t, tx[t], FALSE, "lock")
               /\ cur' = [cur EXCEPT ![t] = {}]
          ELSE /\ cur' = [cur EXCEPT ![t] = @ \ {addr}]
               /\ pc' = [pc EXCEPT ![t] = IF cur[t] = {addr} THEN "fetch" ELSE "lock"]
               /\ UNCHANGED <<tx, log>>
  /\ UNCHANGED <<mem, gvc, op, origin, g, txCount, lim, probe>>

\* Region::Commit is entered with transaction T (its loop ends at once on an
\* empty write set, and tm_end returns true).
EnterCommit(t, T) ==
  IF DOMAIN T.write_set = {}
    THEN /\ Finish(t, T, TRUE, "commit")
         /\ cur' = [cur EXCEPT ![t] = {}]
    ELSE /\ tx' = [tx EXCEPT ![t] = T]
         /\ pc' = [pc EXCEPT ![t] = "commit"]
         /\ cur' = [cur EXCEPT ![t] = DOMAIN T.write_set]
         /\ UNCHANGED log

\* (EnterLockAgain: the variant that goes back to LockWriteSet and tries the
\* commit once more.)
EnterLockAgain(t) ==
  /\ pc' = [pc EXCEPT ![t] = IF DOMAIN tx[t].write_set = {} THEN "fetch" ELSE "lock"]
  /\ cur' = [cur EXCEPT ![t] = DOMAIN tx[t].write_set]
  /\ UNCHANGED <<tx, log>>
\* Region::UnlockWriteSet is entered after a failed validation.
EnterUnlock(t) ==
  IF DOMAIN tx[t].write_set = {}
    THEN /\ Finish(t, tx[t], FALSE, "validate")
         /\ cur' = [cur EXCEPT ![t] = {}]
    ELSE /\ pc' = [pc EXCEPT ![t] = "unlock"]
         /\ cur' = [cur EXCEPT ![t] = DOMAIN tx[t].write_set]
         /\ UNCHANGED <<tx, log>>

\* transaction->wv = region->gvc.fetch_add(1) + 1, then the fast path test:
\* rv + 1 == wv goes to Commit without ValidateReadSet.  Otherwise
\* ValidateReadSet runs; over an empty read set its loop makes no sample and
\* it returns true, so Commit follows at once.
\* (fetch_add_lost: the variant that loads and stores the clock in two steps,
\* seen when the store of another thread's increment is overwritten.)
fetch_add_lost(c) == c
\* gvc.fetch_add(1): the value the clock takes.
fetch_add(c) == c + 1

\* (WriteVersionSkipping: the variant that adds 2 to the value fetched.)
WriteVersionSkipping(fetched) == fetched + 2
\* transaction->wv = (the value fetch_add returned) + 1.
WriteVersion(fetched) == fetched + 1

FetchAdd(t) ==
  /\ pc[t] = "fetch"
  /\ gvc' = fetch_add(gvc)
  /\ LET T == [tx[t] EXCEPT !.wv = WriteVersion(gvc)]
     IN IF T.rv + 1 = T.wv \/ T.read_set = {}
          THEN EnterCommit(t, T)
          ELSE /\ tx' = [tx EXCEPT ![t] = T]
               /\ pc' = [pc EXCEPT ![t] = "validate"]
               /\ cur' = [cur EXCEPT ![t] = T.read_set]
               /\ UNCHANGED log
  /\ UNCHANGED <<mem, op, origin, g, txCount, lim, probe>>

\* Region::ValidateReadSet, one iteration (the unordered_set gives no order).
ValidateReadSet(t) ==
  /\ pc[t] = "validate"
  /\ \E addr \in cur[t] :
       LET ts == Sample(mem[word(addr)].lock)
       IN IF ts.version > tx[t].rv \/ ts.locked
            THEN EnterUnlock(t)
            ELSE IF cur[t] = {addr}
              THEN EnterCommit(t, tx[t])
              ELSE /\ cur' = [cur EXCEPT ![t] = @ \ {addr}]
                   /\ UNCHANGED <<pc, tx, log>>
  /\ UNCHANGED <<mem, gvc, op, origin, g, txCount, lim, probe>>

\* word(entry.first).lock.Unlock() of UnlockWriteSet: the version stays.
\* (ReleaseWithVersion: the variant that calls Unlock(transaction.wv).)
ReleaseWithVersion(l, T) == UnlockWith(l, T.wv)
Release(l, T) == Unlock(l)

\* Region::UnlockWriteSet, one iteration: Unlock() on the word of the region.
UnlockWriteSet(t) ==
  /\ pc[t] = "unlock"
  /\ LET addr == Min(cur[t])
         w == word(addr)
     IN /\ mem' = [mem EXCEPT ![w].lock = Release(@, tx[t])]
        /\ IF cur[t] = {addr}
             THEN /\ Finish(t, tx[t], FALSE, "validate")
                  /\ cur' = [cur EXCEPT ![t] = {}]
             ELSE /\ cur' = [cur EXCEPT ![t] = @ \ {addr}]
                  /\ UNCHANGED <<pc, tx, log>>
  /\ UNCHANGED <<gvc, op, origin, g, txCount, lim, probe>>

\* Region::Commit, first half of an iteration: memcpy(&wl.word, buffer, align).
CommitWrite(t) ==
  /\ pc[t] = "commit"
  /\ LET addr == Min(cur[t])
         w == word(addr)
     IN /\ mem' = [mem EXCEPT ![w].word = tx[t].write_set[addr]]
        /\ origin' = [origin EXCEPT ![w] = tx[t].wv]
  /\ pc' = [pc EXCEPT ![t] = "commit_unlock"]
  /\ UNCHANGED <<gvc, tx, cur, op, g, log, txCount, lim, probe>>

\* Region::Commit, second half: wl.lock.Unlock(transaction.wv).
CommitUnlock(t) ==
  /\ pc[t] = "commit_unlock"
  /\ LET addr == Min(cur[t])
         w == word(addr)
     IN /\ mem' = [mem EXCEPT ![w].lock = UnlockWith(@, tx[t].wv)]
        /\ IF cur[t] = {addr}
             THEN /\ Finish(t, tx[t], TRUE, "commit")
                  /\ cur' = [cur EXCEPT ![t] = {}]
             ELSE /\ cur' = [cur EXCEPT ![t] = @ \ {addr}]
                  /\ pc' = [pc EXCEPT ![t] = "commit"]
                  /\ UNCHANGED <<tx, log>>
  /\ UNCHANGED <<gvc, op, origin, g, txCount, lim, probe>>

\* ------------------------------------------------------ the system
Ranges == {r \in Addrs \X (1..NumWords) : AddrAt(r[1], r[2] - 1) \in Addrs}

Next ==
  \E t \in Threads :
    \/ \E ro \in BOOLEAN : tm_begin(t, ro)
    \/ \E r \in Ranges : \E src \in [1..r[2] -> ValuesOf(g[t].id)] : tm_write(t, r[1], r[2], src)
    \/ \E r \in Ranges : tm_read(t, r[1], r[2])
    \/ ReadWord(t)
    \/ ReadCopy(t)
    \/ tm_end(t)
    \/ LockWriteSet(t)
    \/ FetchAdd(t)
    \/ ValidateReadSet(t)
    \/ UnlockWriteSet(t)
    \/ CommitWrite(t)
    \/ CommitUnlock(t)

Spec == Init /\ [][Next]_vars

\* ------------------------------------------------------ Region::word alone
\* Region::word applied to two addresses of a region whose segments are
\* larger than 64 KiB (tm_create takes any size): segment ids 1 and 2, byte
\* offsets that are multiples of align, at the start of the segment and from
\* 2^16 on.
Segs == {1, 2}
ProbeOffsets ==
  {k * align : k \in 0..MaxProbe} \cup {(kADDR_MASK + 1) + k * align : k \in 0..MaxProbe}
ProbeAddrs == Segs \X ProbeOffsets

InitWord ==
  /\ Created
  /\ probe \in [a : ProbeAddrs, b : ProbeAddrs, wa : {<<>>}, wb : {<<>>}, st : {"asked"}]

Resolve ==
  /\ probe.st = "asked"
  /\ probe' = [probe EXCEPT !.wa = word(probe.a), !.wb = word(probe.b), !.st = "resolved"]
  /\ UNCHANGED <<mem, gvc, pc, tx, cur, op, origin, g, log, txCount, lim>>

NextWord == Resolve

SpecWord == InitWord /\ [][NextWord]_vars

\* ====================================================== history helpers
\* The transaction whose tm_write staged value v (0 is the initial payload).
Owner(v) == v \div (MaxVal + 1)

\* The reads from shared memory of every transaction, finished or running.
AllReads ==
  UNION ({e.reads : e \in log} \cup {g[t].reads : t \in {u \in Threads : pc[u] # "idle"}})

\* Two finished transactions ran concurrently: neither had committed when
\* the other began.
Concurrent(e, f) == e.id \notin f.done /\ f.id \notin e.done

\* The payload of every address after the committed write sets with
\* wv <= bound were applied in the order of their wv.
StateAt(bound) ==
  [a \in Addrs |->
     LET W == {e \in log : e.ok /\ ~e.ro /\ e.wv <= bound /\ a \in DOMAIN e.ws}
     IN IF W = {} THEN 0 ELSE (CHOOSE e \in W : \A f \in W : f.wv <= e.wv).ws[a]]

\* No tm_end that drew a wv <= bound is still running.
Settled(bound) ==
  \A t \in Threads :
    pc[t] \in {"validate", "unlock", "commit", "commit_unlock"} => tx[t].wv > bound

SnapshotOf(e) == IF e.ro THEN e.rv ELSE e.wv - 1

\* Thread t takes this step.
StepOf(t) == <<pc[t], tx[t], cur[t], op[t], g[t]>>' # <<pc[t], tx[t], cur[t], op[t], g[t]>>

\* No word of the region is locked and no LockWriteSet has failed.
NoWordLocked ==
  /\ \A w \in Words : ~mem[w].lock.locked
  /\ \A e \in log : e.how # "lock"

\* ====================================================== claims

\* C1: opacity.  Every read of a transaction whose end returned true returned
\* the value its address has after the committed transactions ordered before
\* it (wv < its wv; wv <= its rv when it is read-only) were applied in wv
\* order; reads served from its own write set are its own writes.
C1_Opacity ==
  \A e \in log :
    (e.ok /\ Settled(SnapshotOf(e))) =>
      \A r \in e.reads : r.val = StateAt(SnapshotOf(e))[r.addr]

\* C2: durability of a commit.  A read of address a by a transaction that
\* began after end(T) returned true, a in T's write set, returns the payload
\* stored by T or by a committer with a larger wv, never one stored by a
\* committer with a smaller wv nor the initial one.
DurableFor(done, reads) ==
  \A r \in reads : \A e \in log :
    (e.ok /\ e.id \in done /\ r.addr \in DOMAIN e.ws) => r.from >= e.wv
C2_Durability ==
  /\ \A e \in log : DurableFor(e.done, e.reads)
  /\ \A t \in Threads : pc[t] # "idle" => DurableFor(g[t].done, g[t].reads)

\* C3: no lost update.  Of two transactions that both staged a write to one
\* address, each begun before the other called end (as in scenario S2), at
\* most one has its end return true.
BothLive(e, f) == e.id <= f.endAt /\ f.id <= e.endAt
C3_NoLostUpdate ==
  \A e, f \in log :
    (e.id # f.id /\ ~e.ro /\ ~f.ro /\ BothLive(e, f)
       /\ (DOMAIN e.ws) \cap (DOMAIN f.ws) # {})
      => ~(e.ok /\ f.ok)

\* C4: a read-write transaction that read address a from shared memory, when
\* a writer of a had its end return true between this transaction's begin and
\* its call of end, does not commit: its end returns false and its Commit never
\* runs.
C4_ConflictAborts ==
  /\ \A e \in log : e.conflict => ~e.ok
  /\ \A t \in Threads : pc[t] \in {"commit", "commit_unlock"} => ~g[t].conflict

\* C5: read-your-writes.  A word that the transaction staged is read back as
\* the staged value, without a sample of its lock, and a read of words that
\* are all staged returns true.
C5_ReadYourWrites ==
  \A t \in Threads :
    LET O == op[t]
        W == g[t].written
    IN O.st # "none" =>
         /\ \A k \in 1..Len(O.dst) :
              AddrAt(O.addr, k - 1) \in DOMAIN W => O.dst[k] = W[AddrAt(O.addr, k - 1)]
         /\ O.sampled \cap DOMAIN W = {}
         /\ (\A k \in 0..(O.n - 1) : AddrAt(O.addr, k) \in DOMAIN W) => O.st # "abort"

\* A read returned a staged value although the word of the region holds
\* another payload, stored by a commit newer than the reader's rv.
C5_Witness ==
  \E t \in Threads :
    /\ op[t].st = "ok"
    /\ pc[t] = "active"
    /\ \E k \in 1..Len(op[t].dst) :
         LET a == AddrAt(op[t].addr, k - 1)
         IN /\ a \in DOMAIN g[t].written
            /\ mem[word(a)].word # op[t].dst[k]
            /\ mem[word(a)].lock.version > tx[t].rv

\* C6: isolation of uncommitted writes.  tm_write changes no word and not the
\* GVC; a payload in shared memory, and so every value a read returns, was
\* staged by a transaction that has entered Commit or has committed.
Published(id) ==
  \/ id = 0
  \/ \E t \in Threads : g[t].id = id /\ pc[t] \in {"commit", "commit_unlock"}
  \/ \E e \in log : e.id = id /\ e.ok
WriteStep(t) == pc[t] = "active" /\ pc'[t] = "active" /\ tx'[t] # tx[t]
C6_Isolation ==
  /\ [](/\ \A w \in Words : Published(Owner(mem[w].word))
        /\ \A r \in AllReads : Published(Owner(r.val)))
  /\ [][\A t \in Threads : WriteStep(t) => (mem' = mem /\ gvc' = gvc)]_vars

\* A transaction that staged a write to an address is aborting in tm_end, and
\* another transaction has read that address.
C6_Witness ==
  \E t, u \in Threads :
    /\ t # u
    /\ pc[t] = "unlock"
    /\ \E r \in g[u].reads : r.addr \in DOMAIN tx[t].write_set

\* C7: version monotonicity.  No step lowers the version of a word.
C7_VersionMonotone ==
  [][\A w \in Words : mem'[w].lock.version >= mem[w].lock.version]_vars

\* C8: read-only transactions are invisible.  No step of a read-only
\* transaction (begin, read, end) changes a word or the GVC, and the end of a
\* read-only transaction returns true.
ReadOnlyStep(t) ==
  \/ pc[t] = "idle" /\ pc'[t] # "idle" /\ tx'[t].ro
  \/ pc[t] # "idle" /\ tx[t].ro /\ StepOf(t)
C8_ReadOnlyInvisible ==
  /\ [][\A t \in Threads : ReadOnlyStep(t) => (mem' = mem /\ gvc' = gvc)]_vars
  /\ [](\A e \in log : (e.ro /\ e.how # "read") => (e.ok /\ e.how = "ro"))

\* A read-only transaction read an address and ended while a concurrent
\* writer of that address committed.
C8_Witness ==
  \E e, f \in log :
    /\ e.ro /\ e.ok /\ e.how = "ro"
    /\ f.ok /\ ~f.ro /\ Concurrent(e, f)
    /\ \E r \in e.reads : r.addr \in DOMAIN f.ws

\* C9: abort leaves no trace.  The steps of a tm_end up to its decision, and
\* those of UnlockWriteSet after a failed validation, change no payload and
\* no version; when tm_end returns false no lock of its write set is locked.
BeforeCommit(t) ==
  \/ pc[t] = "active" /\ pc'[t] \in {"lock", "fetch"}
  \/ pc[t] \in {"lock", "fetch", "validate", "unlock"}
ReturnsFalse(t) ==
  /\ pc[t] \in {"lock", "validate", "unlock"}
  /\ pc'[t] = "idle"
  /\ \E e \in log' \ log : ~e.ok
C9_AbortNoTrace ==
  [][\A t \in Threads :
       /\ (BeforeCommit(t) /\ StepOf(t)) =>
            \A w \in Words : /\ mem'[w].word = mem[w].word
                             /\ mem'[w].lock.version = mem[w].lock.version
       /\ ReturnsFalse(t) =>
            \A a \in DOMAIN tx[t].write_set : ~mem'[word(a)].lock.locked]_vars

\* A tm_end returned false after UnlockWriteSet ran over a write set, one of
\* whose words carries the version of another transaction's commit.
C9_Witness ==
  \E e \in log :
    /\ ~e.ok /\ e.how = "validate" /\ DOMAIN e.ws # {}
    /\ \E a \in DOMAIN e.ws : mem[word(a)].lock.version > 0

\* C10: repeatable read.  In a read-only transaction whose reads all returned
\* true, two reads of one address returned the same value.
Repeatable(reads) == \A r1, r2 \in reads : r1.addr = r2.addr => r1.val = r2.val
C10_RepeatableRead ==
  /\ \A e \in log : (e.ro /\ e.ok) => Repeatable(e.reads)
  /\ \A t \in Threads : (pc[t] = "active" /\ tx[t].ro) => Repeatable(g[t].reads)

\* C11: write-lock mutual exclusion.  From the return of LockWriteSet to its
\* release by Commit or UnlockWriteSet, the lock of every word of the write
\* set is locked in the region; a payload is stored only under that lock; two
\* transactions whose write sets share an address are never both between
\* LockWriteSet and the end of Commit.
AfterLockWriteSet(t) == pc[t] \in {"fetch", "validate", "unlock", "commit", "commit_unlock"}
HeldBy(t) ==
  IF pc[t] \in {"fetch", "validate"} THEN DOMAIN tx[t].write_set
  ELSE IF pc[t] \in {"unlock", "commit", "commit_unlock"} THEN cur[t]
  ELSE {}
C11_WriteLockExclusion ==
  /\ \A t \in Threads : \A a \in HeldBy(t) : mem[word(a)].lock.locked
  /\ \A t, u \in Threads :
       (t # u /\ AfterLockWriteSet(t) /\ AfterLockWriteSet(u) /\ ~tx[t].ro /\ ~tx[u].ro)
         => (DOMAIN tx[t].write_set) \cap (DOMAIN tx[u].write_set) = {}

\* C12: partial rollback of LockWriteSet.  A LockWriteSet whose TryLock fails
\* returns false, leaves the failing word and the words of other transactions
\* as they were, leaves no word of its own write set locked by it, and changes
\* no version.  (The step it speaks of needs a locked word of the region;
\* NoWordLocked shows that no run has one, so no run takes this step.)
LockFails(t) == pc[t] = "lock" /\ pc'[t] = "idle"
C12_PartialRollback ==
  [][\A t \in Threads :
       LockFails(t) =>
         /\ \E e \in log' \ log : ~e.ok /\ e.how = "lock"
         /\ \A w \in Words : mem'[w].lock.version = mem[w].lock.version
         /\ \A a \in Addrs \ (DOMAIN tx[t].write_set \ cur[t]) :
              mem'[word(a)].lock = mem[word(a)].lock
         /\ \A a \in DOMAIN tx[t].write_set \ cur[t] : ~mem'[word(a)].lock.locked]_vars

\* C13: a transaction's own writes do not defeat its validation.  The read
\* set holds only addresses whose shared value was consumed (sampled in the
\* running read, or copied from the region); and a tm_end fails validation
\* only when another transaction that drew its wv after this one began has
\* committed, or is committing, an address of the read set.
ReadSetConsumed(t) ==
  tx[t].read_set \subseteq ({r.addr : r \in g[t].reads} \cup op[t].sampled)
ValidationFails(t) ==
  /\ pc[t] = "validate"
  /\ \/ pc'[t] = "unlock"
     \/ pc'[t] = "idle" /\ \E e \in log' \ log : ~e.ok
Interfered(t, a) ==
  \/ \E e \in log : /\ e.ok /\ ~e.ro /\ e.id # g[t].id
                    /\ a \in DOMAIN e.ws /\ e.wv > tx[t].rv
  \/ \E u \in Threads : /\ u # t /\ pc[u] \in {"commit", "commit_unlock"}
                        /\ a \in DOMAIN tx[u].write_set /\ tx[u].wv > tx[t].rv
FailsOnlyOnInterference ==
  [][\A t \in Threads :
       ValidationFails(t) => \E a \in tx[t].read_set : Interfered(t, a)]_vars
C13_OwnWritesTolerated ==
  /\ [](\A t \in Threads : (pc[t] # "idle" /\ ~tx[t].ro) => ReadSetConsumed(t))
  /\ FailsOnlyOnInterference

\* C14: fast-path soundness.  When tm_end draws wv = rv + 1 and goes to Commit
\* without ValidateReadSet, no address of the read set has a version above rv,
\* and no transaction that ended after this one began has committed a write
\* newer than the value this one read of that address.
FastPathStep(t) == pc[t] = "fetch" /\ pc'[t] # "fetch" /\ tx[t].rv = gvc
StaleRead(t) ==
  \E e \in log : \E r \in g[t].reads :
    /\ e.ok /\ ~e.ro /\ e.id # g[t].id /\ e.id \notin g[t].done
    /\ r.addr \in DOMAIN e.ws
    /\ r.from < e.wv
C14_FastPathSound ==
  [][\A t \in Threads :
       FastPathStep(t) =>
         /\ \A a \in tx[t].read_set : mem[word(a)].lock.version <= tx[t].rv
         /\ ~StaleRead(t)]_vars

\* C15: unique commit versions.  The wv values drawn by tm_end calls are
\* pairwise distinct, each is above the rv of its transaction, and a tm_end
\* that draws later draws a larger wv than every one drawn before.
Drawn ==
  {[id |-> e.id, rv |-> e.rv, wv |-> e.wv] :
     e \in {f \in log : ~f.ro /\ f.how \in {"commit", "validate"}}}
  \cup {[id |-> g[t].id, rv |-> tx[t].rv, wv |-> tx[t].wv] :
          t \in {u \in Threads : pc[u] \in {"validate", "unlock", "commit", "commit_unlock"}}}
C15_UniqueVersions ==
  /\ [](\A x, y \in Drawn : /\ x.wv > x.rv
                            /\ x.id # y.id => x.wv # y.wv)
  /\ [][\A x \in Drawn' \ Drawn : \A y \in Drawn : x.wv > y.wv]_vars

\* Two transactions that began at the same clock value have both drawn a wv.
C15_Witness ==
  \E x, y \in Drawn : x.id # y.id /\ x.rv = y.rv

\* C16: published payload matches published version.  A word whose lock is
\* unlocked with version 0 has its initial payload; one unlocked with version
\* v > 0 has the payload staged for it by the transaction that committed
\* with wv = v.
StagedBy(v, a, payload) ==
  \/ \E e \in log : /\ e.ok /\ ~e.ro /\ e.wv = v
                    /\ a \in DOMAIN e.ws /\ e.ws[a] = payload
  \/ \E t \in Threads : /\ pc[t] \in {"commit", "commit_unlock"} /\ tx[t].wv = v
                        /\ a \in DOMAIN tx[t].write_set /\ tx[t].write_set[a] = payload
C16_PayloadMatchesVersion ==
  \A a \in Addrs :
    LET w == mem[word(a)]
    IN ~w.lock.locked =>
         IF w.lock.version = 0 THEN w.word = 0
         ELSE StagedBy(w.lock.version, a, w.word)

\* C17: read abort condition.  The read of a word that is not served from the
\* write set returns false exactly when the sample of its lock shows locked
\* or a version above rv; then the transaction is destroyed, nothing is
\* copied for that word and no word and not the GVC is changed; otherwise
\* the payload of the word is copied and the read goes on.
ReadsShared(t) ==
  LET a == AddrAt(op[t].addr, op[t].i)
  IN tx[t].ro \/ a \notin DOMAIN g[t].written
C17_ReadAbortCondition ==
  [][\A t \in Threads :
       LET a == AddrAt(op[t].addr, op[t].i)
           l == mem[word(a)].lock
       IN /\ (pc[t] = "read" /\ StepOf(t) /\ ReadsShared(t)) =>
               /\ mem' = mem /\ gvc' = gvc
               /\ IF l.locked \/ l.version > tx[t].rv
                    THEN /\ pc'[t] = "idle" /\ tx'[t] = NoTx
                         /\ op'[t].st = "abort" /\ op'[t].dst = op[t].dst
                         /\ \E e \in log' \ log : ~e.ok /\ e.how = "read" /\ e.id = g[t].id
                    ELSE /\ pc'[t] = "read_copy" /\ log' = log
                         /\ op'[t].dst = op[t].dst
          /\ (pc[t] = "read_copy" /\ StepOf(t)) =>
               /\ mem' = mem /\ gvc' = gvc /\ log' = log
               /\ op'[t].dst = Append(op[t].dst, mem[word(a)].word)
               /\ pc'[t] = (IF op[t].i + 1 = op[t].n THEN "active" ELSE "read")]_vars

\* A read of two words returned false at its second word, whose version is
\* above rv, after its first word was copied.
C17_Witness ==
  \E t \in Threads :
    /\ pc[t] = "idle" /\ op[t].st = "abort" /\ Len(op[t].dst) = 1
    /\ mem[word(AddrAt(op[t].addr, 1))].lock.version > 0

\* C18: the clock bounds the versions.  The version of every word is at most
\* the GVC; a step leaves the GVC as it is or adds 1 to it, and the steps
\* that add 1 are the fetch_add of a read-write tm_end after its LockWriteSet;
\* begin, read, write, the call of end and the other steps of end leave it.
C18_ClockBoundsVersions ==
  /\ [](\A w \in Words : mem[w].lock.version <= gvc)
  /\ [][\/ gvc' = gvc
        \/ /\ gvc' = gvc + 1
           /\ \E t \in Threads : pc[t] = "fetch" /\ ~tx[t].ro /\ StepOf(t)]_vars
  /\ [][\A t \in Threads : (StepOf(t) /\ pc[t] # "fetch") => gvc' = gvc]_vars

\* The last increment of the GVC was made by a tm_end that then failed
\* validation and returned false, and a word carries a version below it.
C18_Witness ==
  \E e \in log :
    /\ ~e.ok /\ e.how = "validate" /\ e.wv = gvc
    /\ \E w \in Words : mem[w].lock.version > 0

\* C19: non-blocking end.  A thread inside tm_end or tm_read always has a
\* step of its own to take, whatever the other threads are doing; each such
\* step lowers the number of steps the call can still take, no step of
\* another thread raises it, and a LockWriteSet whose TryLock fails makes
\* tm_end return at once.
Busy(t) == pc[t] \notin {"idle", "active"}
ThreadStep(t) ==
  \/ ReadWord(t) \/ ReadCopy(t)
  \/ LockWriteSet(t) \/ FetchAdd(t) \/ ValidateReadSet(t)
  \/ UnlockWriteSet(t) \/ CommitWrite(t) \/ CommitUnlock(t)
StepsLeft(t) ==
  LET ws == Cardinality(DOMAIN tx[t].write_set)
      rs == Cardinality(tx[t].read_set)
      left == Cardinality(cur[t])
  IN CASE pc[t] = "read" -> 2 * (op[t].n - op[t].i)
       [] pc[t] = "read_copy" -> 2 * (op[t].n - op[t].i) - 1
       [] pc[t] = "lock" -> left + 1 + rs + 2 * ws
       [] pc[t] = "fetch" -> 1 + rs + 2 * ws
       [] pc[t] = "validate" -> left + 2 * ws
       [] pc[t] = "unlock" -> left
       [] pc[t] = "commit" -> 2 * left
       [] pc[t] = "commit_unlock" -> 2 * left - 1
       [] OTHER -> 0
C19_NonBlockingEnd ==
  /\ [](\A t \in Threads : Busy(t) => ENABLED <<ThreadStep(t)>>_vars)
  /\ [][\A t \in Threads :
          Busy(t) => /\ StepOf(t) => StepsLeft(t)' < StepsLeft(t)
                     /\ ~StepOf(t) => StepsLeft(t)' = StepsLeft(t)
                     /\ LockFails(t) => StepsLeft(t)' = 0]_vars

\* A tm_end is validating its read set while another thread is between the
\* memcpy and the Unlock(wv) of its Commit on an address of that read set.
C19_Witness ==
  \E t, u \in Threads :
    /\ t # u /\ pc[t] = "validate" /\ pc[u] = "commit_unlock"
    /\ Min(cur[u]) \in cur[t]

\* C20: address decoding is injective.  word(addr) is (addr >> 32,
\* (addr & 0xFFFFFFFF) / align): two distinct aligned addresses of one
\* segment, offsets below 2^32, resolve to two distinct words, and the start
\* address 1 << 32 resolves to word 0 of segment 1.
C20_DecodingInjective ==
  /\ word(kFIRST) = <<1, 0>>
  /\ probe.st = "resolved" =>
       /\ probe.wa = <<probe.a[1], probe.a[2] \div align>>
       /\ (probe.a[1] = probe.b[1] /\ probe.a # probe.b) => probe.wa # probe.wb

====
